---- MODULE Spec2Model ----
(***************************************************************************)
(* State-machine model of musicbot2: the per-guild store (per_guild_data), *)
(* the track queue (player), the command actions (action) and the two      *)
(* event loops of main that spawn one task per command or notification.    *)
(* A task is a future run by tokio::spawn; every .await on a network call  *)
(* is a suspension point and is one value of the task's pc.                *)
(***************************************************************************)
EXTENDS Integers, Sequences, FiniteSets, TLC

\* ------------------------------------------------------------------ bounds

\* Tasks spawned in a run of the full specification.
MaxTasks == 2
\* Tasks spawned in a run of SpecQueue and of SpecGuilds (add and TrackEnd).
MaxQueueTasks == 3
\* Tasks spawned in a run of SpecPause.
MaxPauseTasks == 3
\* Tasks spawned in a run of SpecVolume.
MaxVolumeTasks == 2
\* Tasks spawned in a run of SpecTrack (play and add).
MaxTrackTasks == 2
\* Tasks spawned in a run of the reply channel specification.
MaxReplyTasks == 2
\* Tasks spawned in a run of the queue progression specification.
MaxProgressTasks == 5
\* Tasks spawned in a run of the specification of what changes the queue.
MaxFrameTasks == 3

Guilds == {"g1", "g2"}
Channels == {"c1", "c2"}
VoiceChannels == {"v1"}
Tracks == {"a", "b"}
None == "none"

\* ------------------------------------------------------- program constants

VOLUME_BOUNDS_START == 0
VOLUME_BOUNDS_END == 1000

\* The bounds as the half-open range 0..1000.
VolumeBoundsExclusive(v) == VOLUME_BOUNDS_START <= v /\ v < VOLUME_BOUNDS_END

VolumeBoundsContains(v) == VOLUME_BOUNDS_START <= v /\ v <= VOLUME_BOUNDS_END

\* ------------------------------------------------------------------ inputs

\* One positional argument of a command, as args.next() yields it.
Missing == [kind |-> "missing", val |-> 0]
Word == [kind |-> "word", val |-> 0]
Num(n) == [kind |-> "int", val |-> n]

\* str::parse::<i64>: only a numeral parses.
ParseOk(a) == a.kind = "int"
ParseVal(a) == a.val

CommandNames ==
  {"play", "add", "enqueue", "stop", "volume", "seek", "pause", "ping", "skip"}

LavalinkEvents == {"trackstart", "trackend", "other"}

VolumeInputs == {Missing, Word, Num(-1), Num(0), Num(1000), Num(1001)}
SeekInputs == {Missing, Word, Num(7)}

ArgsFor(cmd) ==
  CASE cmd \in {"play", "add", "enqueue"} -> {Missing, Word}
    [] cmd = "volume" -> VolumeInputs
    [] cmd = "seek" -> SeekInputs
    [] OTHER -> {Missing}

\* The match of process_event with a last arm that answers as ping does.
CommandKindOrPing(cmd) ==
  IF cmd \in {"play", "stop", "volume", "seek", "pause"} THEN cmd
  ELSE IF cmd \in {"add", "enqueue"} THEN "add"
  ELSE "ping"

\* The match of process_event on the command name: the task it spawns.
CommandKind(cmd) ==
  CASE cmd = "play" -> "play"
    [] cmd \in {"add", "enqueue"} -> "add"
    [] cmd = "stop" -> "stop"
    [] cmd = "volume" -> "volume"
    [] cmd = "seek" -> "seek"
    [] cmd = "pause" -> "pause"
    [] cmd = "ping" -> "ping"
    [] OTHER -> None

\* ------------------------------------------------------------------- state

VARIABLES
  map,      \* Store.map: guild -> PerGuildData (present = the key is in the map)
  created,  \* guild -> number of PerGuildData values constructed for it
  lock,     \* guild -> task holding the entry's RefMut (0: nobody)
  paused,   \* guild -> the node player's paused flag
  joined,   \* guild -> a voice join for the guild has completed
  tasks,    \* the spawned tasks, in spawn order
  opLog     \* guild -> the enqueues and dequeues applied to its queue, in order

vars == <<map, created, lock, paused, joined, tasks, opLog>>

NoTask == 0

\* PerGuildData::default(), and the absent entry.
DefaultData == [present |-> TRUE, chan |-> None, queue |-> <<>>]
NoData == [present |-> FALSE, chan |-> None, queue |-> <<>>]

\* ------------------------------------------------------------ track queue

\* enqueue assigning the new tracks in place of extending by them.
EnqueueAssigned(q, ts) == ts

\* TrackManager::enqueue: Vec::extend.
Enqueue(q, ts) == q \o ts

\* next_track with a default track in place of None.
NextTrackOrDefault(q) ==
  IF q = <<>>
    THEN [track |-> "a", rest |-> q]
    ELSE [track |-> q[Len(q)], rest |-> SubSeq(q, 1, Len(q) - 1)]

\* next_track as Vec::last would have it: the track stays in the queue.
NextTrackKept(q) ==
  IF q = <<>> THEN [track |-> None, rest |-> q] ELSE [track |-> q[Len(q)], rest |-> q]

\* TrackManager::next_track: Vec::pop.
NextTrack(q) ==
  IF q = <<>>
    THEN [track |-> None, rest |-> q]
    ELSE [track |-> q[Len(q)], rest |-> SubSeq(q, 1, Len(q) - 1)]

\* ------------------------------------------------------------------ store

\* The entry for the guild is vacant.
Vacant(m, g) == ~m[g].present

\* or_insert_with alone: the channel of an entry already there is kept.
AssociateTextChannelOnce(m, g, ch) ==
  IF Vacant(m, g) THEN [m EXCEPT ![g] = [DefaultData EXCEPT !.chan = ch]] ELSE m

\* entry(guild_id).and_modify(..).or_insert_with(..)
AssociateTextChannel(m, g, ch) ==
  IF Vacant(m, g)
    THEN [m EXCEPT ![g] = [DefaultData EXCEPT !.chan = ch]]
    ELSE [m EXCEPT ![g].chan = ch]

\* map.get(&guild_id)?.associated_text_channel
GetAssociatedTextChannel(m, g) == IF Vacant(m, g) THEN None ELSE m[g].chan

\* insert(guild_id, default) in place of the entry API: the entry is replaced.
OrDefaultInserted(m, g) == [m EXCEPT ![g] = DefaultData]

\* entry(guild_id).or_default()
OrDefault(m, g) == IF Vacant(m, g) THEN [m EXCEPT ![g] = DefaultData] ELSE m

\* The number of PerGuildData values constructed after one more entry() call.
Constructed(c, m, g) == IF Vacant(m, g) THEN [c EXCEPT ![g] = @ + 1] ELSE c

\* The entry lock of the guild can be taken.
LockFree(l, g) == l[g] = NoTask

\* The RefMut kept after with_track_manger has returned.
ReleaseKept(l, g) == l

\* The RefMut is dropped when with_track_manger returns.
Release(l, g) == [l EXCEPT ![g] = NoTask]

\* ------------------------------------------------------------------ tasks

Call(op, to, arg, track, num) ==
  [op |-> op, to |-> to, arg |-> arg, track |-> track, num |-> num]

NodeOps == {"play", "destroy", "volume", "seek", "pause"}

\* The cached voice state of a user in a guild: none, or one with the channel the
\* user is in (None after the user has left).
NoVoiceState == [known |-> FALSE, channel |-> None]
VoiceStates ==
  {NoVoiceState} \cup {[known |-> TRUE, channel |-> c] : c \in VoiceChannels \cup {None}}

\* user_voice_channel falling back to a default channel.
UserVoiceChannelOrDefault(vs) ==
  IF vs.known /\ vs.channel # None THEN vs.channel ELSE "v1"

\* helper::user_voice_channel on the cached voice state of the author.
UserVoiceChannel(vs) == IF ~vs.known THEN None ELSE vs.channel

\* The value an action returns: Ok(val), or the error and the value it carries.
Res(tag, val) == [tag |-> tag, val |-> val]
Pending == Res("none", 0)
Ok == Res("Ok", 0)
Failed == Res("Failed", 0)
\* NoTracksFound conflated with the failure of the request.
NoTracksFoundAsFailure == Res("Failed", 0)

NoTracksFound == Res("NoTracksFound", 0)

NewTask(kind, g, ch, arg, clean) ==
  [kind |-> kind, guild |-> g, chan |-> ch, arg |-> arg, pc |-> "start",
   voice |-> NoVoiceState, vchan |-> None, track |-> None, val |-> 0, was |-> FALSE,
   res |-> Pending, out |-> "running", calls |-> <<>>, clean |-> clean]

Active(s) == s.pc # "done"

\* The future passed to spawn returns Ok(()).
Finish(s) == [s EXCEPT !.pc = "done", !.out = "Ok"]

\* The future passed to spawn returns Err: spawn logs "handler error".
Fail(s) == [s EXCEPT !.pc = "done", !.res = Failed, !.out = "Err"]

\* The task issues a remote call and suspends on it.
Await(s, pc, call) == [s EXCEPT !.pc = pc, !.calls = Append(@, call)]

\* response_context.with_content(text).await
Reply(s, text, track, num) == Await(s, "msg", Call("msg", s.chan, text, track, num))

\* state.http.create_message(channel).content(text).exec().await
Post(s, ch, text, track) == Await(s, "msg", Call("msg", ch, text, track, 0))

\* state.lavalink.player(guild_id).await
LookupPlayer(s) == Await(s, "player", Call("player", s.guild, "", None, 0))

\* player.send(directive), which does not suspend.
Send(s, op, track, num) ==
  [s EXCEPT !.calls = Append(@, Call(op, s.guild, "", track, num))]


\* action::volume, the validation of the input bounds.
VolumeCheck(v) ==
  IF ~VolumeBoundsContains(v) THEN Res("OutOfBounds", v) ELSE Pending

\* should_be_paused without the negation: the flag is sent back as read.
ShouldBePausedAsRead(wasPaused) == wasPaused

\* action::pause_toggle: should_be_paused.
ShouldBePaused(wasPaused) == ~wasPaused

\* -------------------------------------------------------------------- init

Init ==
  /\ map = [g \in Guilds |-> NoData]
  /\ created = [g \in Guilds |-> 0]
  /\ lock = [g \in Guilds |-> NoTask]
  /\ paused = [g \in Guilds |-> FALSE]
  /\ joined = [g \in Guilds |-> FALSE]
  /\ tasks = <<>>
  /\ opLog = [g \in Guilds |-> <<>>]

\* ------------------------------------------------------------- dispatchers

\* A pause task starting on the guild overlaps the pause tasks still running on it.
Overlapping(ts, kind, g) ==
  {i \in DOMAIN ts : kind = "pause" /\ ts[i].kind = "pause" /\ ts[i].guild = g /\ Active(ts[i])}

Spawn(ts, kind, g, ch, arg) ==
  Append([i \in DOMAIN ts |->
            IF i \in Overlapping(ts, kind, g) THEN [ts[i] EXCEPT !.clean = FALSE] ELSE ts[i]],
         NewTask(kind, g, ch, arg, Overlapping(ts, kind, g) = {}))

\* The loops ending with the first handler error, as if the result of the
\* future reached them.
EventsNextUntilError(ts) == \A i \in DOMAIN ts : ts[i].out # "Err"

\* events.next() and lavalink_rx.next() in the two loops of main: the loops take
\* the next event whatever the spawned futures have returned, since spawn logs
\* a handler error and hands nothing back.
EventsNext(ts) == TRUE

\* process_event on a message that is no guild command: every early return.
SkipEvent == UNCHANGED vars

\* process_event on a prefixed guild message: the channel is associated, then
\* the command's task is spawned; an unknown command spawns nothing.
ProcessEvent(g, ch, cmd, arg, n) ==
  /\ EventsNext(tasks)
  /\ LockFree(lock, g)
  /\ CommandKind(cmd) # None => Len(tasks) < n
  /\ map' = AssociateTextChannel(map, g, ch)
  /\ created' = Constructed(created, map, g)
  /\ tasks' = IF CommandKind(cmd) = None
                THEN tasks
                ELSE Spawn(tasks, CommandKind(cmd), g, ch, arg)
  /\ UNCHANGED <<lock, paused, joined, opLog>>

\* process_lavalink_event: TrackStart and TrackEnd spawn a task, others nothing.
ProcessLavalinkEvent(g, ev, n) ==
  /\ EventsNext(tasks)
  /\ ev # "other" => Len(tasks) < n
  /\ tasks' = IF ev = "other" THEN tasks ELSE Spawn(tasks, ev, g, None, Missing)
  /\ UNCHANGED <<map, created, lock, paused, joined, opLog>>

\* ------------------------------------------------------------------- tasks

SetTask(t, s) == tasks' = [tasks EXCEPT ![t] = s]

\* The task of "play" and of "add" | "enqueue", up to the voice join.
StartTrackCommand(t, env) ==
  LET s == tasks[t] IN
  /\ s.pc = "start" /\ s.kind \in {"play", "add"}
  /\ \E vs \in env.voice :
       SetTask(t,
         IF s.arg = Missing
           THEN Reply(s, "Pass track as an argument", None, 0)
           ELSE IF UserVoiceChannel(vs) = None
             THEN Reply([s EXCEPT !.voice = vs],
                        "You need to join a voice channel first", None, 0)
             ELSE Await([s EXCEPT !.voice = vs, !.vchan = UserVoiceChannel(vs)], "join",
                        Call("join", s.guild, UserVoiceChannel(vs), None, 0)))
  /\ UNCHANGED <<map, created, lock, paused, joined, opLog>>

\* The tasks of "stop" and "pause": the action starts with the player lookup.
StartPlayerCommand(t) ==
  LET s == tasks[t] IN
  /\ s.pc = "start" /\ s.kind \in {"stop", "pause"}
  /\ SetTask(t, LookupPlayer(s))
  /\ UNCHANGED <<map, created, lock, paused, joined, opLog>>

\* The task of "volume", up to the player lookup of action::volume.
StartVolume(t) ==
  LET s == tasks[t]
      v == ParseVal(s.arg)
  IN
  /\ s.pc = "start" /\ s.kind = "volume"
  /\ SetTask(t,
       IF s.arg = Missing
         THEN Reply(s, "Pass volume value as an argument", None, 0)
         ELSE IF ~ParseOk(s.arg)
           THEN Reply(s, "Volume value is invalid", None, 0)
           ELSE IF VolumeCheck(v) # Pending
             THEN Reply([s EXCEPT !.val = v, !.res = VolumeCheck(v)],
                        "Invalid volume value", None, VolumeCheck(v).val)
             ELSE LookupPlayer([s EXCEPT !.val = v]))
  /\ UNCHANGED <<map, created, lock, paused, joined, opLog>>

\* The task of "seek", up to the player lookup of action::seek.
StartSeek(t) ==
  LET s == tasks[t] IN
  /\ s.pc = "start" /\ s.kind = "seek"
  /\ SetTask(t,
       IF s.arg = Missing
         THEN Reply(s, "Pass seek position in milliseconds as an argument", None, 0)
         ELSE IF ~ParseOk(s.arg)
           THEN Reply(s, "Position is invalid", None, 0)
           ELSE LookupPlayer([s EXCEPT !.val = ParseVal(s.arg)]))
  /\ UNCHANGED <<map, created, lock, paused, joined, opLog>>

\* The task of "ping".
StartPing(t) ==
  LET s == tasks[t] IN
  /\ s.pc = "start" /\ s.kind = "ping"
  /\ SetTask(t, Reply(s, "pong", None, 0))
  /\ UNCHANGED <<map, created, lock, paused, joined, opLog>>

\* with_track_manger, entered: entry(guild_id).or_default() holds the entry.
EnterTrackManager(t, s) ==
  /\ LockFree(lock, s.guild)
  /\ lock' = [lock EXCEPT ![s.guild] = t]
  /\ map' = OrDefault(map, s.guild)
  /\ created' = Constructed(created, map, s.guild)
  /\ SetTask(t, [s EXCEPT !.pc = "locked"])
  /\ UNCHANGED <<paused, joined, opLog>>

\* The TrackEnd task: play_from_queue starts with with_track_manger.
StartTrackEnd(t) ==
  LET s == tasks[t] IN
  /\ s.pc = "start" /\ s.kind = "trackend"
  /\ EnterTrackManager(t, s)

\* The status message of the TrackStart and TrackEnd tasks, or none when the
\* guild has no associated text channel.
\* The TrackStart text used for every status.
StatusTextGeneric(s) == "Playing the track"

StatusText(s) ==
  CASE s.kind = "trackstart" -> "Playing the track"
    [] s.track # None -> "Playing %s from queue"
    [] OTHER -> "Queue empty"

\* The status with the missing channel taken as an error of the handler.
PostStatusRequired(s, ch) ==
  IF ch = None THEN Fail(s) ELSE Post(s, ch, StatusText(s), s.track)

PostStatus(s, ch) ==
  IF ch = None THEN Finish(s) ELSE Post(s, ch, StatusText(s), s.track)

\* get_associated_text_channel in the TrackStart task (its first step) and in
\* the TrackEnd task (after play_from_queue has returned).
GetChannel(t) ==
  LET s == tasks[t] IN
  /\ \/ s.pc = "start" /\ s.kind = "trackstart"
     \/ s.pc = "getchan"
  /\ LockFree(lock, s.guild)
  /\ SetTask(t, PostStatus(s, GetAssociatedTextChannel(map, s.guild)))
  /\ UNCHANGED <<map, created, lock, paused, joined, opLog>>

\* The result of the join dropped: the action goes on after a failed join.
JoinDoneUnchecked(t, env) ==
  LET s == tasks[t] IN
  /\ s.pc = "join"
  /\ \E ok \in env.join :
       /\ SetTask(t, LookupPlayer(s))
       /\ joined' = IF ok THEN [joined EXCEPT ![s.guild] = TRUE] ELSE joined
  /\ UNCHANGED <<map, created, lock, paused, opLog>>

\* voice_channel::join returns.
JoinDone(t, env) ==
  LET s == tasks[t] IN
  /\ s.pc = "join"
  /\ \E ok \in env.join :
       /\ SetTask(t, IF ok THEN LookupPlayer(s) ELSE Fail(s))
       /\ joined' = IF ok THEN [joined EXCEPT ![s.guild] = TRUE] ELSE joined
  /\ UNCHANGED <<map, created, lock, paused, opLog>>

\* What each action does with the player, up to its next suspension.
WithPlayer(s, sent) ==
  CASE s.kind \in {"play", "add"} ->
         Await(s, "resolve", Call("resolve", s.guild, "", None, 0))
    [] s.kind = "trackend" ->
         IF sent
           THEN [Send(s, "play", s.track, 0) EXCEPT !.pc = "getchan", !.res = Ok]
           ELSE Fail(Send(s, "play", s.track, 0))
    [] s.kind = "stop" ->
         IF sent
           THEN Await(Send(s, "destroy", None, 0), "leave",
                      Call("leave", s.guild, "", None, 0))
           ELSE Fail(Send(s, "destroy", None, 0))
    [] s.kind = "volume" ->
         IF sent
           THEN Reply([Send(s, "volume", None, s.val) EXCEPT !.res = Res("Ok", s.val)],
                      "Volume was set to", None, s.val)
           ELSE Fail(Send(s, "volume", None, s.val))
    [] s.kind = "seek" ->
         IF sent
           THEN Reply([Send(s, "seek", None, s.val) EXCEPT !.res = Res("Ok", s.val)],
                      "Position was set to", None, s.val)
           ELSE Fail(Send(s, "seek", None, s.val))
    [] s.kind = "pause" ->
         [s EXCEPT !.pc = "toggle", !.was = paused[s.guild]]

\* play_from_queue putting the track back when the lookup or the Play fails.
PlayerDonePutBack(t, env) ==
  LET s == tasks[t] IN
  /\ s.pc = "player"
  /\ \E ok \in env.player, sent \in env.send :
       /\ SetTask(t, IF ok THEN WithPlayer(s, sent) ELSE Fail(s))
       /\ map' = IF s.kind = "trackend" /\ ~(ok /\ sent)
                   THEN [map EXCEPT ![s.guild].queue = Enqueue(@, <<s.track>>)]
                   ELSE map
  /\ UNCHANGED <<created, lock, paused, joined, opLog>>

\* state.lavalink.player(guild_id) returns.
PlayerDone(t, env) ==
  LET s == tasks[t] IN
  /\ s.pc = "player"
  /\ \E ok \in env.player, sent \in env.send :
       SetTask(t, IF ok THEN WithPlayer(s, sent) ELSE Fail(s))
  /\ UNCHANGED <<map, created, lock, paused, joined, opLog>>

\* pause_toggle as one atomic step: the flag is read when the directive is sent.
TogglePauseAtomic(t, env) ==
  LET s == tasks[t]
      b == ShouldBePaused(paused[s.guild])
      s2 == Send(s, "pause", None, IF b THEN 1 ELSE 0)
  IN
  /\ s.pc = "toggle"
  /\ paused' = [paused EXCEPT ![s.guild] = b]
  /\ \E sent \in env.send :
       SetTask(t,
         IF sent
           THEN Reply([s2 EXCEPT !.res = Res("Ok", IF b THEN 1 ELSE 0)],
                      IF b THEN "Paused" ELSE "Unpaused", None, 0)
           ELSE Fail(s2))
  /\ UNCHANGED <<map, created, lock, joined, opLog>>

\* pause_toggle sends the Pause directive; the player handle keeps the flag sent.
TogglePause(t, env) ==
  LET s == tasks[t]
      b == ShouldBePaused(s.was)
      s2 == Send(s, "pause", None, IF b THEN 1 ELSE 0)
  IN
  /\ s.pc = "toggle"
  /\ paused' = [paused EXCEPT ![s.guild] = b]
  /\ \E sent \in env.send :
       SetTask(t,
         IF sent
           THEN Reply([s2 EXCEPT !.res = Res("Ok", IF b THEN 1 ELSE 0)],
                      IF b THEN "Paused" ELSE "Unpaused", None, 0)
           ELSE Fail(s2))
  /\ UNCHANGED <<map, created, lock, joined, opLog>>

\* The search request of play and enqueue returns: a failure, no track, or the
\* first track of the result.
LoadResults == {"failed", "empty"} \cup Tracks

ResolveDone(t, env) ==
  LET s == tasks[t] IN
  /\ s.pc = "resolve"
  /\ \E r \in env.load, sent \in env.send :
       CASE r = "failed" ->
              /\ SetTask(t, Fail(s))
              /\ UNCHANGED <<map, created, lock, paused, joined, opLog>>
         [] r = "empty" ->
              /\ SetTask(t, Reply([s EXCEPT !.res = NoTracksFound], "No tracks found", None, 0))
              /\ UNCHANGED <<map, created, lock, paused, joined, opLog>>
         [] r \in Tracks /\ s.kind = "play" ->
              /\ SetTask(t,
                   IF sent
                     THEN Reply([Send(s, "play", r, 0) EXCEPT !.track = r, !.res = Ok],
                                "Playing %s", r, 0)
                     ELSE Fail([Send(s, "play", r, 0) EXCEPT !.track = r]))
              /\ UNCHANGED <<map, created, lock, paused, joined, opLog>>
         [] r \in Tracks /\ s.kind = "add" ->
              EnterTrackManager(t, [s EXCEPT !.track = r])

\* The closure of with_track_manger runs on the guild's TrackManager and the
\* entry is released.
LogOp(log, g, op, track, t) ==
  [log EXCEPT ![g] = Append(@, [op |-> op, track |-> track, task |-> t])]

\* The closure of enqueue on one TrackManager shared by every guild.
ApplyEnqueueShared(t) ==
  LET s == tasks[t] IN
  /\ s.pc = "locked" /\ s.kind = "add"
  /\ map' = [g \in Guilds |-> [map[g] EXCEPT !.queue = Enqueue(@, <<s.track>>)]]
  /\ lock' = Release(lock, s.guild)
  /\ opLog' = LogOp(opLog, s.guild, "enq", s.track, t)
  /\ SetTask(t, Reply([s EXCEPT !.res = Ok], "Enqueued %s", s.track, 0))
  /\ UNCHANGED <<created, paused, joined>>

ApplyEnqueue(t) ==
  LET s == tasks[t] IN
  /\ s.pc = "locked" /\ s.kind = "add"
  /\ map' = [map EXCEPT ![s.guild].queue = Enqueue(@, <<s.track>>)]
  /\ lock' = Release(lock, s.guild)
  /\ opLog' = LogOp(opLog, s.guild, "enq", s.track, t)
  /\ SetTask(t, Reply([s EXCEPT !.res = Ok], "Enqueued %s", s.track, 0))
  /\ UNCHANGED <<created, paused, joined>>

\* The closure of play_from_queue with the entry kept after it has returned.
ApplyNextTrackHeld(t) ==
  LET s == tasks[t]
      r == NextTrack(map[s.guild].queue)
  IN
  /\ s.pc = "locked" /\ s.kind = "trackend"
  /\ map' = [map EXCEPT ![s.guild].queue = r.rest]
  /\ lock' = lock
  /\ opLog' = IF r.track = None THEN opLog ELSE LogOp(opLog, s.guild, "deq", r.track, t)
  /\ SetTask(t,
       IF r.track = None
         THEN [s EXCEPT !.pc = "getchan", !.res = Ok]
         ELSE LookupPlayer([s EXCEPT !.track = r.track]))
  /\ UNCHANGED <<created, paused, joined>>

ApplyNextTrack(t) ==
  LET s == tasks[t]
      r == NextTrack(map[s.guild].queue)
  IN
  /\ s.pc = "locked" /\ s.kind = "trackend"
  /\ map' = [map EXCEPT ![s.guild].queue = r.rest]
  /\ lock' = Release(lock, s.guild)
  /\ opLog' = IF r.track = None THEN opLog ELSE LogOp(opLog, s.guild, "deq", r.track, t)
  /\ SetTask(t,
       IF r.track = None
         THEN [s EXCEPT !.pc = "getchan", !.res = Ok]
         ELSE LookupPlayer([s EXCEPT !.track = r.track]))
  /\ UNCHANGED <<created, paused, joined>>

\* stop clearing the queue of the guild once it has left the voice channel.
LeaveDoneClearing(t, env) ==
  LET s == tasks[t] IN
  /\ s.pc = "leave"
  /\ \E ok \in env.leave :
       /\ SetTask(t, IF ok THEN Finish([s EXCEPT !.res = Ok]) ELSE Fail(s))
       /\ map' = IF ok THEN [map EXCEPT ![s.guild].queue = <<>>] ELSE map
  /\ UNCHANGED <<created, lock, paused, joined, opLog>>

\* voice_channel::leave returns.
LeaveDone(t, env) ==
  LET s == tasks[t] IN
  /\ s.pc = "leave"
  /\ \E ok \in env.leave :
       SetTask(t, IF ok THEN Finish([s EXCEPT !.res = Ok]) ELSE Fail(s))
  /\ UNCHANGED <<map, created, lock, paused, joined, opLog>>

\* The message request returns; the task ends with its result.
MessageDone(t, env) ==
  LET s == tasks[t] IN
  /\ s.pc = "msg"
  /\ \E ok \in env.msg :
       SetTask(t, IF ok THEN Finish(s) ELSE [s EXCEPT !.pc = "done", !.out = "Err"])
  /\ UNCHANGED <<map, created, lock, paused, joined, opLog>>

\* ------------------------------------------------------------ specification

Gateway(gs, chs, cmds, n) ==
  \E g \in gs, ch \in chs, cmd \in cmds :
    \E arg \in ArgsFor(cmd) : ProcessEvent(g, ch, cmd, arg, n)

Node(gs, evs, n) == \E g \in gs, ev \in evs : ProcessLavalinkEvent(g, ev, n)

\* What the services outside the program may answer: the cached voice state of
\* the author, and whether each remote call succeeds.
AnyEnv ==
  [voice |-> VoiceStates, join |-> BOOLEAN, player |-> BOOLEAN, send |-> BOOLEAN,
   load |-> LoadResults, leave |-> BOOLEAN, msg |-> BOOLEAN]

\* The author is in a voice channel, the join, the search and the messages
\* succeed; the player lookup and the directives of the node may fail.
QueueEnv ==
  [AnyEnv EXCEPT !.voice = {[known |-> TRUE, channel |-> "v1"]}, !.join = {TRUE},
                 !.load = Tracks, !.msg = {TRUE}]

\* Every command and notification on two guilds, commands coming from one
\* channel, every remote call free to fail.
Next ==
  \/ SkipEvent
  \/ Gateway(Guilds, {"c1"}, CommandNames, MaxTasks)
  \/ Node(Guilds, LavalinkEvents, MaxTasks)
  \/ \E t \in DOMAIN tasks : StartTrackCommand(t, AnyEnv)
  \/ \E t \in DOMAIN tasks : StartPlayerCommand(t)
  \/ \E t \in DOMAIN tasks : StartVolume(t)
  \/ \E t \in DOMAIN tasks : StartSeek(t)
  \/ \E t \in DOMAIN tasks : StartPing(t)
  \/ \E t \in DOMAIN tasks : StartTrackEnd(t)
  \/ \E t \in DOMAIN tasks : GetChannel(t)
  \/ \E t \in DOMAIN tasks : JoinDone(t, AnyEnv)
  \/ \E t \in DOMAIN tasks : PlayerDone(t, AnyEnv)
  \/ \E t \in DOMAIN tasks : TogglePause(t, AnyEnv)
  \/ \E t \in DOMAIN tasks : ResolveDone(t, AnyEnv)
  \/ \E t \in DOMAIN tasks : ApplyEnqueue(t)
  \/ \E t \in DOMAIN tasks : ApplyNextTrack(t)
  \/ \E t \in DOMAIN tasks : LeaveDone(t, AnyEnv)
  \/ \E t \in DOMAIN tasks : MessageDone(t, AnyEnv)

\* One guild, its queue fed by add and drained by TrackEnd notifications.
NextQueue ==
  \/ Gateway({"g1"}, Channels, {"add", "enqueue"}, MaxQueueTasks)
  \/ Node({"g1"}, {"trackend"}, MaxQueueTasks)
  \/ \E t \in DOMAIN tasks : StartTrackCommand(t, QueueEnv)
  \/ \E t \in DOMAIN tasks : StartTrackEnd(t)
  \/ \E t \in DOMAIN tasks : GetChannel(t)
  \/ \E t \in DOMAIN tasks : JoinDone(t, QueueEnv)
  \/ \E t \in DOMAIN tasks : PlayerDone(t, QueueEnv)
  \/ \E t \in DOMAIN tasks : ResolveDone(t, QueueEnv)
  \/ \E t \in DOMAIN tasks : ApplyEnqueue(t)
  \/ \E t \in DOMAIN tasks : ApplyNextTrack(t)
  \/ \E t \in DOMAIN tasks : MessageDone(t, QueueEnv)

SpecQueue == Init /\ [][NextQueue]_vars

\* The same on two guilds, commands coming from one channel.
NextGuilds ==
  \/ Gateway(Guilds, {"c1"}, {"add"}, MaxQueueTasks)
  \/ Node(Guilds, {"trackend"}, MaxQueueTasks)
  \/ \E t \in DOMAIN tasks : StartTrackCommand(t, QueueEnv)
  \/ \E t \in DOMAIN tasks : StartTrackEnd(t)
  \/ \E t \in DOMAIN tasks : GetChannel(t)
  \/ \E t \in DOMAIN tasks : JoinDone(t, QueueEnv)
  \/ \E t \in DOMAIN tasks : PlayerDone(t, QueueEnv)
  \/ \E t \in DOMAIN tasks : ResolveDone(t, QueueEnv)
  \/ \E t \in DOMAIN tasks : ApplyEnqueue(t)
  \/ \E t \in DOMAIN tasks : ApplyNextTrack(t)
  \/ \E t \in DOMAIN tasks : MessageDone(t, QueueEnv)

SpecGuilds == Init /\ [][NextGuilds]_vars

\* The volume command on one guild, every remote call free to fail.
NextVolume ==
  \/ Gateway({"g1"}, {"c1"}, {"volume"}, MaxVolumeTasks)
  \/ \E t \in DOMAIN tasks : StartVolume(t)
  \/ \E t \in DOMAIN tasks : PlayerDone(t, AnyEnv)
  \/ \E t \in DOMAIN tasks : MessageDone(t, AnyEnv)

SpecVolume == Init /\ [][NextVolume]_vars

\* The pause command on one guild, every remote call free to fail.
NextPause ==
  \/ Gateway({"g1"}, {"c1"}, {"pause"}, MaxPauseTasks)
  \/ \E t \in DOMAIN tasks : StartPlayerCommand(t)
  \/ \E t \in DOMAIN tasks : PlayerDone(t, AnyEnv)
  \/ \E t \in DOMAIN tasks : TogglePause(t, AnyEnv)
  \/ \E t \in DOMAIN tasks : MessageDone(t, AnyEnv)

SpecPause == Init /\ [][NextPause]_vars

\* The play and add commands on one guild, every remote call free to fail.
NextTrackCommands ==
  \/ Gateway({"g1"}, {"c1"}, {"play", "add", "enqueue"}, MaxTrackTasks)
  \/ \E t \in DOMAIN tasks : StartTrackCommand(t, AnyEnv)
  \/ \E t \in DOMAIN tasks : JoinDone(t, AnyEnv)
  \/ \E t \in DOMAIN tasks : PlayerDone(t, AnyEnv)
  \/ \E t \in DOMAIN tasks : ResolveDone(t, AnyEnv)
  \/ \E t \in DOMAIN tasks : ApplyEnqueue(t)
  \/ \E t \in DOMAIN tasks : MessageDone(t, AnyEnv)

SpecTrack == Init /\ [][NextTrackCommands]_vars

\* The reply channel of one guild: ping and an unrecognized command from two
\* channels, and the notifications that read the channel.
NextReply ==
  \/ Gateway({"g1"}, Channels, {"ping", "skip"}, MaxReplyTasks)
  \/ Node({"g1"}, {"trackstart", "trackend"}, MaxReplyTasks)
  \/ \E t \in DOMAIN tasks : StartPing(t)
  \/ \E t \in DOMAIN tasks : StartTrackEnd(t)
  \/ \E t \in DOMAIN tasks : GetChannel(t)
  \/ \E t \in DOMAIN tasks : ApplyNextTrack(t)
  \/ \E t \in DOMAIN tasks : MessageDone(t, AnyEnv)

SpecReply == Init /\ [][NextReply]_vars

\* The node answers: the player lookup and the directives succeed as well.
ProgressEnv == [QueueEnv EXCEPT !.player = {TRUE}, !.send = {TRUE}]

\* The commands come first and the notifications after them: no command arrives
\* once a TrackEnd has, and no TrackEnd while a command is still being handled.
NoTrackEndYet == \A t \in DOMAIN tasks : tasks[t].kind # "trackend"
CommandsDone == \A t \in DOMAIN tasks : tasks[t].kind = "add" => tasks[t].pc = "done"

\* The steps of the spawned tasks of the queue progression specification.
ProgressTasks ==
  \/ \E t \in DOMAIN tasks : StartTrackCommand(t, ProgressEnv)
  \/ \E t \in DOMAIN tasks : StartTrackEnd(t)
  \/ \E t \in DOMAIN tasks : GetChannel(t)
  \/ \E t \in DOMAIN tasks : JoinDone(t, ProgressEnv)
  \/ \E t \in DOMAIN tasks : PlayerDone(t, ProgressEnv)
  \/ \E t \in DOMAIN tasks : ResolveDone(t, ProgressEnv)
  \/ \E t \in DOMAIN tasks : ApplyEnqueue(t)
  \/ \E t \in DOMAIN tasks : ApplyNextTrack(t)
  \/ \E t \in DOMAIN tasks : MessageDone(t, ProgressEnv)

\* One guild: its queue is filled by add commands and then drained by TrackEnd
\* notifications alone.
NextProgress ==
  \/ NoTrackEndYet /\ Gateway({"g1"}, {"c1"}, {"add"}, MaxProgressTasks - 1)
  \/ CommandsDone /\ Node({"g1"}, {"trackend"}, MaxProgressTasks)
  \/ ProgressTasks

\* The runtime runs every spawned task that can take a step, and the remote
\* calls return.
SpecProgress == Init /\ [][NextProgress]_vars /\ WF_vars(ProgressTasks)

\* Every recognized command and both notifications on one guild, the remote
\* calls succeeding apart from the leave.
NextFrame ==
  \/ Gateway({"g1"}, {"c1"}, {"play", "add", "stop", "volume", "seek", "pause", "ping"},
             MaxFrameTasks)
  \/ Node({"g1"}, {"trackstart", "trackend"}, MaxFrameTasks)
  \/ \E t \in DOMAIN tasks : StartTrackCommand(t, ProgressEnv)
  \/ \E t \in DOMAIN tasks : StartPlayerCommand(t)
  \/ \E t \in DOMAIN tasks : StartVolume(t)
  \/ \E t \in DOMAIN tasks : StartSeek(t)
  \/ \E t \in DOMAIN tasks : StartPing(t)
  \/ \E t \in DOMAIN tasks : StartTrackEnd(t)
  \/ \E t \in DOMAIN tasks : GetChannel(t)
  \/ \E t \in DOMAIN tasks : JoinDone(t, ProgressEnv)
  \/ \E t \in DOMAIN tasks : PlayerDone(t, ProgressEnv)
  \/ \E t \in DOMAIN tasks : TogglePause(t, ProgressEnv)
  \/ \E t \in DOMAIN tasks : ResolveDone(t, ProgressEnv)
  \/ \E t \in DOMAIN tasks : ApplyEnqueue(t)
  \/ \E t \in DOMAIN tasks : ApplyNextTrack(t)
  \/ \E t \in DOMAIN tasks : LeaveDone(t, ProgressEnv)
  \/ \E t \in DOMAIN tasks : MessageDone(t, ProgressEnv)

SpecFrame == Init /\ [][NextFrame]_vars

Spec == Init /\ [][Next]_vars

\* ------------------------------------------------------------------ claims

TaskIds == DOMAIN tasks

\* The add tasks whose closure has run: their track is in the queue of the guild.
Enqueued(g) ==
  {t \in TaskIds : tasks[t].kind = "add" /\ tasks[t].guild = g
                     /\ tasks[t].pc \in {"msg", "done"} /\ tasks[t].res = Ok}

\* The TrackEnd tasks to which next_track has returned a track.
Dequeued(g) ==
  {t \in TaskIds : tasks[t].kind = "trackend" /\ tasks[t].guild = g
                     /\ tasks[t].track # None}

Occurrences(q, x) == Cardinality({i \in DOMAIN q : q[i] = x})

EnqLog(g) == SelectSeq(opLog[g], LAMBDA e : e.op = "enq")
DeqLog(g) == SelectSeq(opLog[g], LAMBDA e : e.op = "deq")

\* Every enqueue on the guild came before its first dequeue.
EnqueuesThenDequeues(g) ==
  \A i, j \in DOMAIN opLog[g] :
    opLog[g][i].op = "enq" /\ opLog[g][j].op = "deq" => i < j

\* C1: FIFO playback order. When the tracks t1..tn of a guild were enqueued with
\* no dequeue in between, the dequeues that follow return t1, t2, ... in
\* enqueue order: the k-th track dequeued is the k-th track enqueued.
C1_FifoOrder ==
  \A g \in Guilds :
    EnqueuesThenDequeues(g) =>
      \A k \in DOMAIN DeqLog(g) : DeqLog(g)[k].track = EnqLog(g)[k].track

\* C2: queue consistency under interleaved enqueue and advanceQueue tasks. Every
\* track whose enqueue has completed is in the queue or was dequeued by exactly
\* one TrackEnd task (no lost update, no double dequeue), so per track, and in
\* total, dequeued + queued = enqueued.
C2_QueueConsistent ==
  \A g \in Guilds :
    /\ Cardinality(Dequeued(g)) + Len(map[g].queue) = Cardinality(Enqueued(g))
    /\ \A x \in Tracks :
         Cardinality({t \in Dequeued(g) : tasks[t].track = x})
           + Occurrences(map[g].queue, x)
           = Cardinality({t \in Enqueued(g) : tasks[t].track = x})
    /\ Len(DeqLog(g)) = Cardinality(Dequeued(g))
    /\ Len(EnqLog(g)) = Cardinality(Enqueued(g))

\* Two enqueues and a dequeue have interleaved: a TrackEnd task spawned before
\* an add task has dequeued a track while another track stays queued.
C2_Witness ==
  \E g \in Guilds :
    /\ Cardinality(Enqueued(g)) = 2
    /\ Len(map[g].queue) = 1
    /\ \E d \in Dequeued(g) : \E e \in Enqueued(g) : d < e

\* A step taken by task t (not the step that spawns it).
Stepped(t) == t \in DOMAIN tasks /\ tasks'[t] # tasks[t]

\* Task t leaves the program point pc in this step.
Leaves(t, pc) == t \in DOMAIN tasks /\ tasks[t].pc = pc /\ tasks'[t].pc # pc

CallOps(s) == {s.calls[i].op : i \in DOMAIN s.calls}
CallsOf(s, op) == SelectSeq(s.calls, LAMBDA c : c.op = op)
LastCall(s) == s.calls[Len(s.calls)]

\* C3: guild isolation. A step of an enqueue or advanceQueue task of guild g
\* leaves the entry of every other guild h as it is, and the queue of h holds
\* only tracks enqueued by tasks of h.
C3_GuildIsolation ==
  /\ [](\A h \in Guilds : \A i \in DOMAIN map[h].queue :
          \E t \in Enqueued(h) : tasks[t].track = map[h].queue[i])
  /\ [][\A t \in DOMAIN tasks :
          Stepped(t) /\ tasks[t].kind \in {"add", "trackend"} =>
            \A h \in Guilds \ {tasks[t].guild} : map'[h] = map[h]]_vars

\* Both guilds have enqueued, one has dequeued its track and the other still
\* holds its own.
C3_Witness ==
  /\ Enqueued("g1") # {} /\ Dequeued("g1") # {} /\ map["g1"].queue = <<>>
  /\ \E t \in Enqueued("g2") :
       /\ map["g2"].queue = <<tasks[t].track>>
       /\ \A u \in Enqueued("g1") : tasks[u].track # tasks[t].track

\* The tasks of the commands of a guild: process_event has associated the
\* channel of each before spawning it.
Commands(g) == {t \in TaskIds : tasks[t].guild = g /\ tasks[t].chan # None}
LastCommand(g) == CHOOSE t \in Commands(g) : \A u \in Commands(g) : u <= t

\* The tasks that have called with_track_manger for the guild.
Entered(g) ==
  {t \in TaskIds :
     /\ tasks[t].guild = g
     /\ \/ tasks[t].kind = "trackend" /\ tasks[t].pc # "start"
        \/ tasks[t].kind = "add" /\ (tasks[t].pc = "locked" \/ t \in Enqueued(g))}

\* C4: at most one session per guild. However the first accesses to an absent
\* guild interleave, one PerGuildData is constructed for it, and it shows the
\* effect of every access: the channel of the last command and every track
\* enqueued and not yet dequeued.
C4_OneSession ==
  \A g \in Guilds :
    /\ created[g] <= 1
    /\ map[g].present <=> created[g] = 1
    /\ Commands(g) # {} \/ Entered(g) # {} => map[g].present
    /\ Commands(g) # {} => map[g].chan = tasks[LastCommand(g)].chan
    /\ Len(map[g].queue) = Cardinality(Enqueued(g)) - Cardinality(Dequeued(g))

\* Two TrackEnd tasks spawned while the guild was absent have entered
\* with_track_manger, a command has been dispatched and its track enqueued.
C4_Witness ==
  \E g \in Guilds :
    /\ Len(tasks) >= 3
    /\ tasks[1].kind = "trackend" /\ tasks[2].kind = "trackend"
    /\ {1, 2} \subseteq Entered(g)
    /\ Enqueued(g) # {}
    /\ created[g] = 1

RemoteOps == NodeOps \cup {"player", "join", "leave", "resolve"}

\* C5: the volume bounds. A value outside 0..1000 is answered with the
\* OutOfBounds error carrying it, before any remote call; a value inside is
\* never rejected, its player lookup is issued, and unless the lookup fails the
\* one Volume directive carries the value, as does the result Ok.
C5_VolumeBounds ==
  \A t \in TaskIds :
    LET s == tasks[t]
        v == s.arg.val
    IN
    s.kind = "volume" /\ s.arg.kind = "int" /\ s.pc # "start" =>
      IF v < 0 \/ v > 1000
        THEN /\ s.res = Res("OutOfBounds", v)
             /\ CallOps(s) \cap RemoteOps = {}
        ELSE /\ s.res.tag # "OutOfBounds"
             /\ s.calls[1] = Call("player", s.guild, "", None, 0)
             /\ \A i \in DOMAIN s.calls :
                  s.calls[i].op = "volume" => s.calls[i] = Call("volume", s.guild, "", None, v)
             /\ s.res.tag = "Ok" => s.res.val = v
             /\ s.pc # "player" =>
                  \/ Len(CallsOf(s, "volume")) = 1
                  \/ s.res = Failed /\ Len(s.calls) = 1

\* 1000 has been set and 1001 rejected.
C5_Witness ==
  \E t, u \in TaskIds :
    /\ tasks[t].kind = "volume" /\ tasks[t].arg = Num(1000)
    /\ tasks[t].pc = "done" /\ tasks[t].res = Res("Ok", 1000)
    /\ tasks[u].kind = "volume" /\ tasks[u].arg = Num(1001)
    /\ tasks[u].pc = "done" /\ tasks[u].res.tag = "OutOfBounds"

\* C6: advanceQueue on an empty queue, the guild having a session or not,
\* returns Ok(None), looks up no player, issues no directive and leaves the
\* queue empty.
C6_EmptyAdvance ==
  /\ [](\A t \in TaskIds :
          tasks[t].kind = "trackend" /\ tasks[t].pc \notin {"start", "locked"}
            /\ tasks[t].track = None =>
              tasks[t].res = Ok /\ CallOps(tasks[t]) \cap RemoteOps = {})
  /\ [][\A t \in DOMAIN tasks :
          Leaves(t, "locked") /\ tasks[t].kind = "trackend"
            /\ map[tasks[t].guild].queue = <<>> =>
              /\ tasks'[t].track = None /\ tasks'[t].res = Ok
              /\ tasks'[t].calls = <<>>
              /\ map'[tasks[t].guild].queue = <<>>]_vars

\* A TrackEnd for a guild no command has touched has found the queue empty.
C6_Witness ==
  \E t \in TaskIds :
    /\ tasks[t].kind = "trackend" /\ tasks[t].pc = "done" /\ tasks[t].track = None
    /\ Commands(tasks[t].guild) = {}
    /\ map[tasks[t].guild].present

BoolNum(b) == IF b THEN 1 ELSE 0

\* The pause tasks of the guild of t spawned no later than t.
TogglesUpTo(t) ==
  {u \in TaskIds : u <= t /\ tasks[u].kind = "pause" /\ tasks[u].guild = tasks[t].guild}

\* C7: sequential toggles alternate. A toggle that overlaps no other toggle of
\* its guild issues Pause with the negation of the flag the previous one left
\* and returns it; from the flag false, toggles run one after the other issue
\* true, false, true, ...
C7_ToggleAlternates ==
  /\ [](\A t \in TaskIds :
          tasks[t].kind = "pause" /\ CallsOf(tasks[t], "pause") # <<>>
            /\ (\A u \in TogglesUpTo(t) : tasks[u].clean) =>
              LET k == Cardinality({u \in TogglesUpTo(t) : CallsOf(tasks[u], "pause") # <<>>})
              IN /\ CallsOf(tasks[t], "pause")
                     = <<Call("pause", tasks[t].guild, "", None, k % 2)>>
                 /\ tasks[t].res.tag = "Ok" => tasks[t].res.val = k % 2)
  /\ [][\A t \in DOMAIN tasks :
          Leaves(t, "toggle") /\ tasks[t].clean =>
            LET g == tasks[t].guild
                b == ~paused[g]
            IN /\ tasks'[t].calls[Len(tasks[t].calls) + 1]
                    = Call("pause", g, "", None, BoolNum(b))
               /\ paused'[g] = b
               /\ tasks'[t].res.tag = "Ok" => tasks'[t].res.val = BoolNum(b)]_vars

\* Two toggles, the second made after the first has completed: the first has
\* returned true and the second false.
C7_Witness ==
  /\ Len(tasks) >= 2
  /\ tasks[1].kind = "pause" /\ tasks[1].clean /\ tasks[1].res = Res("Ok", 1)
  /\ tasks[2].kind = "pause" /\ tasks[2].clean /\ tasks[2].res = Res("Ok", 0)
  /\ tasks[2].guild = tasks[1].guild
  /\ tasks[2].pc = "done"

\* The author of the command of task s is in no voice channel the cache knows.
NoVoiceChannelKnown(s) == ~s.voice.known \/ s.voice.channel = None

\* C8: play and add by an author with no known voice channel. The task sends
\* the one reply "You need to join a voice channel first" to the channel of the
\* command and nothing else: no join, no resolution, no directive, and it leaves
\* the store as it is.
C8_NoVoiceChannel ==
  /\ [](\A t \in TaskIds :
          LET s == tasks[t] IN
          s.kind \in {"play", "add"} /\ s.arg # Missing /\ s.pc # "start"
            /\ NoVoiceChannelKnown(s) =>
              /\ s.calls = <<Call("msg", s.chan, "You need to join a voice channel first", None, 0)>>
              /\ s.pc \in {"msg", "done"}
              /\ s.res = Pending)
  /\ [][\A t \in DOMAIN tasks :
          Stepped(t) /\ tasks[t].kind \in {"play", "add"} /\ tasks[t].arg # Missing
            /\ NoVoiceChannelKnown(tasks'[t]) =>
              map' = map /\ joined' = joined /\ lock' = lock]_vars

\* A play and an add, one by an author the cache does not know and one by an
\* author who has left the voice channels, have both been answered.
C8_Witness ==
  \E t, u \in TaskIds :
    /\ tasks[t].kind = "play" /\ tasks[u].kind = "add"
    /\ tasks[t].arg # Missing /\ tasks[u].arg # Missing
    /\ tasks[t].pc = "done" /\ tasks[u].pc = "done"
    /\ NoVoiceChannelKnown(tasks[t]) /\ NoVoiceChannelKnown(tasks[u])
    /\ tasks[t].voice # tasks[u].voice

\* C9: a successful enqueue adds one entry, the resolved track, to the queue of
\* its guild, and the add task issues no directive to the node at any point,
\* a track playing or not.
C9_EnqueueAddsOne ==
  /\ [](\A t \in TaskIds : tasks[t].kind = "add" => CallOps(tasks[t]) \cap NodeOps = {})
  /\ [][\A t \in DOMAIN tasks :
          Leaves(t, "locked") /\ tasks[t].kind = "add" =>
            LET g == tasks[t].guild
                x == tasks[t].track
            IN /\ x \in Tracks
               /\ LastCall(tasks[t]) = Call("resolve", g, "", None, 0)
               /\ Len(map'[g].queue) = Len(map[g].queue) + 1
               /\ \A y \in Tracks :
                    Occurrences(map'[g].queue, y)
                      = Occurrences(map[g].queue, y) + (IF y = x THEN 1 ELSE 0)
               /\ tasks'[t].res = Ok
               /\ LastCall(tasks'[t]) = Call("msg", tasks[t].chan, "Enqueued %s", x, 0)]_vars

\* A track has been enqueued after a TrackEnd task has issued Play for another:
\* the last operation on the queue is the enqueue, behind the one entry left.
C9_Witness ==
  \E g \in Guilds : \E e \in Enqueued(g) : \E d \in Dequeued(g) :
    /\ "play" \in CallOps(tasks[d])
    /\ tasks[d].pc = "done"
    /\ tasks[e].pc = "msg"
    /\ Len(map[g].queue) = 1

\* C10: TrackEnd with one queued track and a known reply channel. The dequeue
\* empties the queue; the task issues at most one Play, for that track; when it
\* ends well it has looked the player up, issued the Play and, the channel
\* being known, posted the one status naming the track to the channel the store
\* holds when it is read.
C10_TrackEndPlaysQueued ==
  /\ [](\A t \in TaskIds :
          LET s == tasks[t] IN
          s.kind = "trackend" /\ s.track # None =>
            /\ Len(CallsOf(s, "play")) <= 1
            /\ CallsOf(s, "play") \in {<<>>, <<Call("play", s.guild, "", s.track, 0)>>}
            /\ s.pc = "done" /\ s.out = "Ok" =>
                 /\ SubSeq(s.calls, 1, 2)
                      = <<Call("player", s.guild, "", None, 0),
                          Call("play", s.guild, "", s.track, 0)>>
                 /\ Len(s.calls) <= 3)
  /\ [][\A t \in DOMAIN tasks :
          Leaves(t, "locked") /\ tasks[t].kind = "trackend"
            /\ Len(map[tasks[t].guild].queue) = 1 =>
              /\ map'[tasks[t].guild].queue = <<>>
              /\ tasks'[t].track = map[tasks[t].guild].queue[1]
              /\ tasks'[t].pc = "player"]_vars
  /\ [][\A t \in DOMAIN tasks :
          Leaves(t, "getchan") /\ tasks[t].track # None
            /\ map[tasks[t].guild].chan # None =>
              /\ tasks'[t].pc = "msg"
              /\ tasks'[t].calls
                   = Append(tasks[t].calls,
                            Call("msg", map[tasks[t].guild].chan, "Playing %s from queue",
                                 tasks[t].track, 0))]_vars

\* After commands from c1 and then c2, a TrackEnd has played the one queued
\* track and posted its status to c2, leaving the queue empty.
C10_Witness ==
  \E t \in TaskIds :
    /\ tasks[t].kind = "trackend" /\ tasks[t].pc = "done" /\ tasks[t].out = "Ok"
    /\ tasks[t].track # None
    /\ Len(tasks[t].calls) = 3
    /\ LastCall(tasks[t]).to = "c2"
    /\ tasks[1].chan = "c1"
    /\ map[tasks[t].guild].queue = <<>>
    /\ Cardinality(Enqueued(tasks[t].guild)) = 1

\* The calls of play and enqueue up to the search request.
CallsToResolve(s) ==
  <<Call("join", s.guild, s.vchan, None, 0),
    Call("player", s.guild, "", None, 0),
    Call("resolve", s.guild, "", None, 0)>>

\* C11: an empty result set is NotFound, not a failed search. A play or add
\* whose search returns no track ends with NoTracksFound, which is not the
\* outcome of a failed request: it is answered "No tracks found" where the
\* failure is answered nothing and ends the task with an error; the task has
\* issued no Play, and the step leaves the store and the queue as they are.
C11_NotFoundDistinct ==
  /\ [](\A t \in TaskIds :
          LET s == tasks[t] IN
          s.kind \in {"play", "add"} =>
            /\ s.res = NoTracksFound =>
                 /\ s.calls = Append(CallsToResolve(s),
                                     Call("msg", s.chan, "No tracks found", None, 0))
                 /\ t \notin Enqueued(s.guild)
            /\ s.res = Failed => s.out = "Err" /\ "msg" \notin CallOps(s)
            /\ (\E i \in DOMAIN s.calls : s.calls[i].arg = "No tracks found")
                 => s.res = NoTracksFound)
  /\ [][\A t \in DOMAIN tasks :
          Leaves(t, "resolve") /\ tasks'[t].res = NoTracksFound =>
            /\ map' = map /\ opLog' = opLog /\ lock' = lock
            /\ tasks'[t].pc = "msg"]_vars

\* A play has found no track and has been answered, and the search of an add
\* has failed: the two tasks have ended differently.
C11_Witness ==
  \E t, u \in TaskIds :
    /\ tasks[t].kind = "play" /\ tasks[t].res = NoTracksFound
    /\ tasks[t].pc = "done" /\ tasks[t].out = "Ok"
    /\ tasks[u].kind = "add" /\ tasks[u].res = Failed
    /\ tasks[u].calls = CallsToResolve(tasks[u])
    /\ map[tasks[u].guild].queue = <<>>

\* C12: the order of the steps of an action. In play and enqueue the join of
\* the guild has completed before the player lookup, the search, the Play
\* directive and the append to the queue, and a failed join ends the action
\* with none of them; in stop Destroy is sent before the leave, and a failed
\* Destroy ends the action with no leave.
C12_StepOrder ==
  /\ [](\A t \in TaskIds :
          LET s == tasks[t] IN
          /\ s.kind \in {"play", "add"} /\ CallOps(s) \cap (RemoteOps \ {"join"}) # {} =>
               /\ s.calls[1] = Call("join", s.guild, s.vchan, None, 0)
               /\ joined[s.guild]
               /\ \A i \in DOMAIN s.calls :
                    s.calls[i].op \in {"resolve", "play"} =>
                      SubSeq(s.calls, 1, 3) = CallsToResolve(s) /\ i >= 3
          /\ s.kind = "add" /\ t \in Enqueued(s.guild) =>
               SubSeq(s.calls, 1, 3) = CallsToResolve(s) /\ joined[s.guild]
          /\ s.kind = "stop" /\ "leave" \in CallOps(s) =>
               s.calls = <<Call("player", s.guild, "", None, 0),
                           Call("destroy", s.guild, "", None, 0),
                           Call("leave", s.guild, "", None, 0)>>)
  /\ [][\A t \in DOMAIN tasks :
          /\ Leaves(t, "join") =>
               IF tasks'[t].out = "Err"
                 THEN /\ tasks'[t].pc = "done" /\ tasks'[t].calls = tasks[t].calls
                      /\ map' = map /\ opLog' = opLog /\ joined' = joined
                 ELSE joined'[tasks[t].guild] /\ tasks'[t].pc = "player"
          /\ Leaves(t, "player") /\ tasks[t].kind = "stop" /\ tasks'[t].out = "Err" =>
               tasks'[t].pc = "done" /\ "leave" \notin CallOps(tasks'[t])]_vars

\* A play has gone through every step, and a stop has sent Destroy and left.
C12_Witness ==
  \E t, u \in TaskIds :
    /\ tasks[t].kind = "play" /\ tasks[t].pc = "done" /\ tasks[t].res = Ok
    /\ Len(tasks[t].calls) = 5
    /\ tasks[u].kind = "stop" /\ tasks[u].pc = "done" /\ tasks[u].res = Ok
    /\ Len(tasks[u].calls) = 3

\* C13: no directive before the join. Whenever a task has sent a directive
\* (Play, Pause, Seek, Volume, Destroy) to the node for a guild, a voice join
\* for that guild has completed before.
C13_NoDirectiveBeforeJoin ==
  \A t \in TaskIds :
    CallOps(tasks[t]) \cap NodeOps # {} => joined[tasks[t].guild]

\* The tasks that have returned an error to spawn.
FailedTasks == {t \in TaskIds : tasks[t].out = "Err"}

\* C14: failure isolation. After a task has failed the two loops still take
\* the next command and the next notification of every guild, the failed task
\* holds no entry of the store, and the step in which a task fails leaves the
\* store, the entries of the other guilds with it, as it is.
C14_FailureIsolation ==
  /\ [](\A g \in Guilds :
          /\ FailedTasks # {} /\ Len(tasks) < MaxTasks /\ LockFree(lock, g) =>
               /\ ENABLED ProcessEvent(g, "c1", "ping", Missing, MaxTasks)
               /\ ENABLED ProcessLavalinkEvent(g, "trackend", MaxTasks)
          /\ FailedTasks # {} /\ LockFree(lock, g) =>
               ENABLED ProcessEvent(g, "c1", "skip", Missing, MaxTasks)
          /\ lock[g] \notin FailedTasks)
  /\ [][\A t \in DOMAIN tasks :
          Stepped(t) /\ tasks'[t].out = "Err" =>
            /\ map' = map /\ lock' = lock /\ opLog' = opLog
            /\ \A u \in DOMAIN tasks \ {t} : tasks'[u] = tasks[u]]_vars

\* The first task has failed on one guild; a command dispatched on the other
\* guild has enqueued its track and been answered.
C14_Witness ==
  /\ Len(tasks) = 2
  /\ tasks[1].out = "Err" /\ tasks[1].guild = "g1"
  /\ tasks[2].guild = "g2" /\ tasks[2].kind = "add"
  /\ tasks[2].pc = "done" /\ tasks[2].out = "Ok"
  /\ 2 \in Enqueued("g2")
  /\ map["g2"].queue = <<tasks[2].track>>

\* C15: every failure of a command's action is reported to the user. The task
\* of a command whose action has returned an error (NoTracksFound, OutOfBounds
\* or any other failure) has sent a reply to the channel of the command.
C15_FailureReported ==
  \A t \in TaskIds :
    LET s == tasks[t] IN
    s.chan # None /\ s.res.tag \in {"NoTracksFound", "OutOfBounds", "Failed"} =>
      \E i \in DOMAIN s.calls : s.calls[i].op = "msg" /\ s.calls[i].to = s.chan

\* The command names process_event matches, and the ones it does not.
RecognizedCommands == {"play", "add", "enqueue", "stop", "volume", "seek", "pause", "ping"}
UnrecognizedCommands == CommandNames \ RecognizedCommands

\* C16: an unrecognized command is ignored. The dispatch of a prefixed message
\* whose command name process_event does not match spawns no task, so sends
\* no reply and no directive, and leaves every queue, the entry locks, the
\* paused flags and the joins as they are.
C16_UnrecognizedIgnored ==
  [][\A g \in Guilds, ch \in Channels, cmd \in UnrecognizedCommands :
     ProcessEvent(g, ch, cmd, Missing, MaxTasks) =>
       /\ tasks' = tasks
       /\ \A h \in Guilds : map'[h].queue = map[h].queue
       /\ \A h \in Guilds \ {g} : map'[h] = map[h]
       /\ lock' = lock /\ paused' = paused /\ joined' = joined
       /\ opLog' = opLog]_vars

\* Unrecognized commands are all a guild has received: it has its entry and
\* the channel of the message, and no task was spawned.
C16_Witness ==
  /\ tasks = <<>>
  /\ \E g \in Guilds :
       map[g].present /\ map[g].chan = "c1" /\ map[g].queue = <<>> /\ created[g] = 1

\* The status a notification task posts to channel ch.
StatusCall(s, ch) ==
  Call("msg", ch,
       CASE s.kind = "trackstart" -> "Playing the track"
         [] s.track # None -> "Playing %s from queue"
         [] OTHER -> "Queue empty",
       s.track, 0)

\* C17: notifications and the reply channel. A TrackStart or TrackEnd task that
\* finds no reply channel for its guild posts nothing and ends with Ok; the
\* TrackEnd task has advanced the queue before it looks the channel up, so a
\* queued track is dequeued and its Play issued whatever the channel. With the
\* channel known, TrackStart posts the one generic status, and TrackEnd posts
\* the now-playing status when it dequeued a track and "Queue empty" when the
\* queue was empty.
C17_StatusAndChannel ==
  /\ [](\A t \in TaskIds :
          LET s == tasks[t] IN
          s.kind \in {"trackstart", "trackend"} =>
            /\ Len(CallsOf(s, "msg")) <= 1
            /\ \A i \in DOMAIN s.calls :
                 s.calls[i].op = "msg" => i = Len(s.calls) /\ s.calls[i] = StatusCall(s, s.calls[i].to)
            /\ s.kind = "trackend" /\ s.track # None /\ s.pc \in {"getchan", "msg"} =>
                 SubSeq(s.calls, 1, 2) = <<Call("player", s.guild, "", None, 0),
                                           Call("play", s.guild, "", s.track, 0)>>)
  /\ [][\A t \in DOMAIN tasks :
          LET s == tasks[t]
              ch == GetAssociatedTextChannel(map, s.guild)
          IN
          /\ Leaves(t, "locked") /\ s.kind = "trackend" /\ map[s.guild].queue # <<>> =>
               /\ Len(map'[s.guild].queue) = Len(map[s.guild].queue) - 1
               /\ tasks'[t].track # None /\ tasks'[t].pc = "player"
          /\ \/ Leaves(t, "start") /\ s.kind = "trackstart"
             \/ Leaves(t, "getchan")
             => IF ch = None
                  THEN /\ tasks'[t].pc = "done" /\ tasks'[t].out = "Ok"
                       /\ tasks'[t].calls = s.calls
                  ELSE /\ tasks'[t].pc = "msg"
                       /\ tasks'[t].calls = Append(s.calls, StatusCall(s, ch))]_vars

\* On a guild with no reply channel a TrackEnd has ended with Ok and posted
\* nothing; on a guild whose channel is known a TrackStart has posted its
\* status.
C17_Witness ==
  \E t, u \in TaskIds :
    /\ tasks[t].kind = "trackend" /\ tasks[t].pc = "done" /\ tasks[t].out = "Ok"
    /\ tasks[t].calls = <<>> /\ map[tasks[t].guild].chan = None
    /\ tasks[u].kind = "trackstart" /\ tasks[u].pc = "done" /\ tasks[u].out = "Ok"
    /\ tasks[u].calls = <<Call("msg", "c1", "Playing the track", None, 0)>>

\* C18: the reply channel is the channel of the last command dispatched. The
\* dispatch of a prefixed guild message from channel ch leaves ch as the reply
\* channel of the guild, the command recognized or not; no other step changes
\* the reply channel, so no task that ends or fails does; and a reply channel
\* once set is never absent again.
C18_ReplyChannelIsLast ==
  [][\A g \in Guilds :
       /\ \A ch \in Channels, cmd \in CommandNames :
            \A arg \in ArgsFor(cmd) :
              ProcessEvent(g, ch, cmd, arg, MaxReplyTasks) =>
                GetAssociatedTextChannel(map', g) = ch
       /\ GetAssociatedTextChannel(map', g) # GetAssociatedTextChannel(map, g) =>
            \E ch \in Channels, cmd \in CommandNames :
              \E arg \in ArgsFor(cmd) :
                /\ ProcessEvent(g, ch, cmd, arg, MaxReplyTasks)
                /\ GetAssociatedTextChannel(map', g) = ch
       /\ GetAssociatedTextChannel(map, g) # None =>
            GetAssociatedTextChannel(map', g) # None]_vars

\* A ping from c1 has failed and an unrecognized command from c2 came after a
\* notification had read c1: the reply channel is c2.
C18_Witness ==
  /\ Len(tasks) = 2
  /\ tasks[1].kind = "ping" /\ tasks[1].chan = "c1" /\ tasks[1].out = "Err"
  /\ tasks[2].kind = "trackstart" /\ tasks[2].pc = "done"
  /\ tasks[2].calls = <<Call("msg", "c1", "Playing the track", None, 0)>>
  /\ GetAssociatedTextChannel(map, "g1") = "c2"

\* The task waits on a remote call: a join or leave, the player lookup, the
\* search request or an outbound message.
Suspended(s) == s.pc \in {"join", "player", "resolve", "leave", "msg"}

\* C19: no entry of the store is held across a suspension. The entry of a
\* guild is held only by a task of that guild inside the closure of
\* with_track_manger; a task that waits on a remote call holds no entry, so
\* when no task is inside the closure every entry can be taken.
C19_NoLockAcrossSuspension ==
  /\ \A g \in Guilds :
       lock[g] # NoTask =>
         /\ lock[g] \in TaskIds
         /\ tasks[lock[g]].pc = "locked" /\ tasks[lock[g]].guild = g
  /\ \A t \in TaskIds :
       Suspended(tasks[t]) \/ tasks[t].pc # "locked" => \A g \in Guilds : lock[g] # t
  /\ (\A t \in TaskIds : tasks[t].pc # "locked") => \A g \in Guilds : LockFree(lock, g)

\* An add task waits on its reply after its enqueue, another one waits on the
\* player lookup, and a third task holds the entry of the same guild.
C19_Witness ==
  \E g \in Guilds : \E t, u, w \in TaskIds :
    /\ t \in Enqueued(g) /\ tasks[t].pc = "msg"
    /\ tasks[u].guild = g /\ tasks[u].pc = "player"
    /\ lock[g] = w /\ w # t /\ w # u

\* The pause tasks of the guild that have sent their Pause directive.
Toggled(g) ==
  {t \in TaskIds : tasks[t].kind = "pause" /\ tasks[t].guild = g
                     /\ CallsOf(tasks[t], "pause") # <<>>}

\* C20: the toggle is a read and then a write, not one atomic step. A pause
\* task reads the paused flag in one step, taking no entry of the store, and
\* in a later step sends and stores the negation of the flag it read, whatever
\* the flag is by then. Two pause tasks of a guild that have read the same
\* flag have so issued the same directive and returned the same value, and
\* when they are the only toggles made the flag is as after one toggle.
C20_ToggleRace ==
  /\ [](\A g \in Guilds : \A t, u \in Toggled(g) :
          t # u /\ tasks[t].was = tasks[u].was =>
            /\ CallsOf(tasks[t], "pause") = CallsOf(tasks[u], "pause")
            /\ tasks[t].res.tag = "Ok" /\ tasks[u].res.tag = "Ok" =>
                 tasks[t].res = tasks[u].res
            /\ Toggled(g) = {t, u} => paused[g] = ~tasks[t].was)
  /\ [][\A t \in DOMAIN tasks :
          /\ Leaves(t, "player") /\ tasks[t].kind = "pause" /\ tasks'[t].pc = "toggle" =>
               /\ tasks'[t].was = paused[tasks[t].guild]
               /\ paused' = paused /\ lock' = lock /\ map' = map
          /\ Leaves(t, "toggle") =>
               LET b == ~tasks[t].was IN
               /\ tasks'[t].calls[Len(tasks[t].calls) + 1]
                    = Call("pause", tasks[t].guild, "", None, BoolNum(b))
               /\ paused'[tasks[t].guild] = b
               /\ tasks'[t].res.tag = "Ok" => tasks'[t].res.val = BoolNum(b)
               /\ lock' = lock /\ map' = map
               /\ \A g \in Guilds : LockFree(lock, g)]_vars

\* Two pause tasks have both read the flag false, both sent Pause(true) and
\* both answered "Paused": the flag is true, as after one toggle.
C20_Witness ==
  \E t, u \in TaskIds :
    /\ t # u /\ tasks[t].guild = tasks[u].guild
    /\ tasks[t].kind = "pause" /\ tasks[u].kind = "pause"
    /\ ~tasks[t].was /\ ~tasks[u].was
    /\ tasks[t].res = Res("Ok", 1) /\ tasks[u].res = Res("Ok", 1)
    /\ tasks[t].pc = "done" /\ tasks[u].pc = "done"
    /\ Toggled(tasks[t].guild) = {t, u}
    /\ paused[tasks[t].guild]

\* The TrackEnd tasks of the guild to which next_track has returned.
Advanced(g) ==
  {t \in TaskIds : tasks[t].kind = "trackend" /\ tasks[t].guild = g
                     /\ tasks[t].pc \notin {"start", "locked"}}

Min(a, b) == IF a <= b THEN a ELSE b

\* C21: the queue progresses on notifications alone. With k tracks enqueued
\* and no further command, every TrackEnd task ends, and ends well: the first
\* k of them to advance the queue dequeue one track each, every queued entry
\* once, and issue the one Play for it; the queue is then empty, and a further
\* TrackEnd finds it empty, issues no Play and posts "Queue empty".
C21_QueueProgress ==
  /\ \A n \in 1..MaxProgressTasks :
       (n \in DOMAIN tasks /\ tasks[n].kind = "trackend")
         ~> (/\ n \in DOMAIN tasks
             /\ tasks[n].pc = "done" /\ tasks[n].out = "Ok"
             /\ tasks[n].track # None =>
                  CallsOf(tasks[n], "play") = <<Call("play", "g1", "", tasks[n].track, 0)>>
             /\ tasks[n].track = None =>
                  tasks[n].calls = <<Call("msg", "c1", "Queue empty", None, 0)>>
                    \/ tasks[n].calls = <<>>)
  /\ [](LET k == Cardinality(Enqueued("g1")) IN
        /\ Cardinality(Dequeued("g1")) = Min(k, Cardinality(Advanced("g1")))
        /\ Len(map["g1"].queue) = k - Cardinality(Dequeued("g1"))
        /\ \A x \in Tracks :
             Cardinality({t \in Dequeued("g1") : tasks[t].track = x})
               + Occurrences(map["g1"].queue, x)
               = Cardinality({t \in Enqueued("g1") : tasks[t].track = x})
        /\ \A t \in Advanced("g1") :
             /\ tasks[t].track = None => "play" \notin CallOps(tasks[t])
             /\ tasks[t].track # None /\ tasks[t].pc # "player" =>
                  CallsOf(tasks[t], "play") = <<Call("play", "g1", "", tasks[t].track, 0)>>)

\* Two tracks were enqueued and three TrackEnd notifications followed: two
\* tasks have played one track each, the last has found the queue empty, and
\* every task has ended.
C21_Witness ==
  /\ Len(tasks) = 5
  /\ Cardinality(Enqueued("g1")) = 2
  /\ Cardinality(Dequeued("g1")) = 2
  /\ \A t \in TaskIds : tasks[t].pc = "done"
  /\ \A t \in Dequeued("g1") : "play" \in CallOps(tasks[t])
  /\ tasks[5].kind = "trackend" /\ tasks[5].track = None
  /\ tasks[5].calls = <<Call("msg", "c1", "Queue empty", None, 0)>>
  /\ map["g1"].queue = <<>>

\* The tasks that never enter with_track_manger.
NoQueueKinds == {"play", "stop", "volume", "seek", "pause", "ping", "trackstart"}

\* C22: only enqueue and play_from_queue change a queue. No step of a play,
\* stop, volume, seek, pause, ping or TrackStart task changes the store or the
\* order of the operations on a queue; a step that changes the queue of a guild
\* is the closure of an add or TrackEnd task of that guild; so the queue holds,
\* a stop made or not, the tracks enqueued and not yet dequeued.
C22_OnlyQueueOps ==
  /\ [](\A g \in Guilds :
          Len(map[g].queue) = Cardinality(Enqueued(g)) - Cardinality(Dequeued(g)))
  /\ [][/\ \A t \in DOMAIN tasks :
             Stepped(t) /\ tasks[t].kind \in NoQueueKinds =>
               map' = map /\ opLog' = opLog /\ lock' = lock
        /\ \A g \in Guilds :
             map'[g].queue # map[g].queue =>
               \E t \in DOMAIN tasks :
                 /\ Leaves(t, "locked") /\ tasks[t].guild = g
                 /\ tasks[t].kind \in {"add", "trackend"}]_vars

\* A track was enqueued, a stop has sent Destroy and left, and a TrackEnd has
\* then dequeued the track and issued Play for it.
C22_Witness ==
  /\ Len(tasks) = 3
  /\ tasks[1].kind = "add" /\ 1 \in Enqueued("g1") /\ tasks[1].pc = "done"
  /\ tasks[2].kind = "stop" /\ tasks[2].pc = "done" /\ tasks[2].res = Ok
  /\ tasks[3].kind = "trackend" /\ tasks[3].track = tasks[1].track
  /\ CallsOf(tasks[3], "play") = <<Call("play", "g1", "", tasks[1].track, 0)>>
  /\ map["g1"].queue = <<>>

\* The TrackEnd tasks of the guild whose play_from_queue has returned an error
\* after it had taken a track.
FailedAdvances(g) ==
  {t \in Dequeued(g) : tasks[t].res = Failed}

\* The TrackEnd tasks of the guild whose Play for track x was sent.
Played(g, x) ==
  {t \in Dequeued(g) : tasks[t].track = x /\ tasks[t].res = Ok}

\* C23: no put-back on failure. play_from_queue takes the track from the queue
\* before it looks the player up: the step leaves the queue one entry shorter
\* with no Play issued yet. When the lookup or the Play fails the task ends
\* with the error and the queue stays as it is, so the track, counted as
\* dequeued, is played by no later TrackEnd task.
C23_NoPutBack ==
  /\ [](\A g \in Guilds :
          /\ Len(map[g].queue) = Cardinality(Enqueued(g)) - Cardinality(Dequeued(g))
          /\ \A t \in FailedAdvances(g) :
               tasks[t].pc = "done" /\ tasks[t].out = "Err" /\ "msg" \notin CallOps(tasks[t])
          /\ \A x \in Tracks :
               Cardinality(Played(g, x))
                 + Cardinality({t \in FailedAdvances(g) : tasks[t].track = x})
                 + Occurrences(map[g].queue, x)
                 <= Cardinality({t \in Enqueued(g) : tasks[t].track = x}))
  /\ [][\A t \in DOMAIN tasks :
          LET s == tasks[t] IN
          /\ Leaves(t, "locked") /\ s.kind = "trackend" /\ map[s.guild].queue # <<>> =>
               /\ Len(map'[s.guild].queue) = Len(map[s.guild].queue) - 1
               /\ tasks'[t].track # None /\ tasks'[t].pc = "player"
               /\ tasks'[t].calls = <<Call("player", s.guild, "", None, 0)>>
          /\ Leaves(t, "player") /\ s.kind = "trackend" /\ tasks'[t].out = "Err" =>
               /\ tasks'[t].pc = "done" /\ tasks'[t].res = Failed
               /\ tasks'[t].track = s.track
               /\ map' = map /\ opLog' = opLog]_vars

\* The one track enqueued was taken by a TrackEnd task that has failed; a
\* later TrackEnd has found the queue empty and played nothing.
C23_Witness ==
  \E t, u \in TaskIds :
    /\ t < u
    /\ t \in FailedAdvances("g1") /\ tasks[t].pc = "done"
    /\ tasks[u].kind = "trackend" /\ tasks[u].pc = "done" /\ tasks[u].track = None
    /\ Len(tasks[u].calls) = 1 /\ tasks[u].calls[1].arg = "Queue empty"
    /\ Cardinality(Enqueued("g1")) = 1
    /\ map["g1"].queue = <<>>

====
